---- MODULE Spec2Model ----
(***************************************************************************)
(* Model of server.js: a webhook receiver with a file backend and a        *)
(* PostgreSQL backend, and the three handlers POST /webhook, GET /logs and *)
(* GET /logs/:filename.                                                    *)
(*                                                                         *)
(* A JavaScript string is a sequence of chunks (TLA+ strings); the chunks  *)
(* a conversion looks at (":" in an ISO timestamp, the digits, the JSON    *)
(* punctuation) are chunks of their own.  A JSON text is such a sequence.  *)
(* A JavaScript value is a record [t, s, f]: t its type, s the chunks of a *)
(* string or number, f the members (key k, value v) of an object.          *)
(***************************************************************************)
EXTENDS Integers, Sequences, FiniteSets, TLC

(* ---------------------------- bounds ----------------------------------- *)
\* the clock runs over 0..MaxClock milliseconds after the epoch of the model
MaxClock == 2
\* number of POST /webhook requests in one behaviour
MaxPosts == 2

(* ------------------------- JavaScript values --------------------------- *)
JsNull == [t |-> "null", s |-> <<>>, f |-> <<>>]
JsNum(c) == [t |-> "number", s |-> <<c>>, f |-> <<>>]
JsStr(cs) == [t |-> "string", s |-> cs, f |-> <<>>]
JsObj(ms) == [t |-> "object", s |-> <<>>, f |-> ms]
JsUndefined == [t |-> "undefined", s |-> <<>>, f |-> <<>>]
Member(key, val) == [k |-> key, v |-> val]

\* the number literals of the payloads
NumberLiterals == {"1"}
\* the chunk standing for the character U+0000 and its JSON escape
NulChar == "<NUL>"
NulEscape == "\\u0000"

Digits == <<"0", "1", "2", "3", "4", "5", "6", "7", "8", "9">>
Digit(n) == Digits[n + 1]

(* ------------------------- Date and file names ------------------------- *)
\* new Date().toISOString() for the instant t (milliseconds, t < 60000)
toISOString(t) ==
  <<"2020-01-01T00", ":", "00", ":",
    Digit((t \div 10000) % 10), Digit((t \div 1000) % 10), ".",
    Digit((t \div 100) % 10), Digit((t \div 10) % 10), Digit(t % 10), "Z">>

\* .replace(/:/g, '-')
replaceColons(str) == [i \in DOMAIN str |-> IF str[i] = ":" THEN "-" ELSE str[i]]

\* `webhook-${timestamp}.json`
filenameOf(timestamp) == <<"webhook-">> \o timestamp \o <<".json">>

\* file.endsWith('.json')
endsWithJson(file) == Len(file) > 0 /\ file[Len(file)] = ".json"

\* UTF-16 code unit of the chunks in which two file names can differ
Code(c) ==
  IF \E n \in 0..9 : Digit(n) = c
  THEN 48 + (CHOOSE n \in 0..9 : Digit(n) = c)
  ELSE IF c = "." THEN 46 ELSE IF c = "-" THEN 45 ELSE 0

\* a < b in the order of Array.prototype.sort() without a comparator
RECURSIVE StrLess(_, _)
StrLess(a, b) ==
  IF a = <<>> THEN b # <<>>
  ELSE IF b = <<>> THEN FALSE
  ELSE IF Head(a) = Head(b) THEN StrLess(Tail(a), Tail(b))
  ELSE Code(Head(a)) < Code(Head(b))

\* files.sort().reverse() on a set of distinct names
RECURSIVE sortReverse(_)
sortReverse(S) ==
  IF S = {} THEN <<>>
  ELSE LET m == CHOOSE x \in S : \A y \in S \ {x} : StrLess(y, x)
       IN <<m>> \o sortReverse(S \ {m})

(* ------------------------------ JSON ----------------------------------- *)
\* the escape JSON.stringify writes for a chunk of a string, and its inverse
escapeChunk(c) == IF c = NulChar THEN NulEscape ELSE c
unescapeChunk(c) == IF c = NulEscape THEN NulChar ELSE c

quoteString(cs) == <<"\"">> \o [i \in DOMAIN cs |-> escapeChunk(cs[i])] \o <<"\"">>

\* JSON.stringify(value)
RECURSIVE JSONstringify(_), stringifyMembers(_)
JSONstringify(val) ==
  CASE val.t = "null" -> <<"null">>
    [] val.t = "number" -> val.s
    [] val.t = "string" -> quoteString(val.s)
    [] val.t = "object" -> <<"{">> \o stringifyMembers(val.f) \o <<"}">>

stringifyMembers(ms) ==
  IF ms = <<>> THEN <<>>
  ELSE quoteString(<<Head(ms).k>>) \o <<":">> \o JSONstringify(Head(ms).v)
       \o (IF Len(ms) > 1 THEN <<",">> ELSE <<>>) \o stringifyMembers(Tail(ms))

\* result of a parse step: ok, the value, and the index after it
ParseFail == [ok |-> FALSE, v |-> JsNull, n |-> 0]
ParseOk(val, next) == [ok |-> TRUE, v |-> val, n |-> next]

\* index of the closing quote of the string opened before index i, 0 if none
RECURSIVE closingQuote(_, _)
closingQuote(tx, i) ==
  IF i > Len(tx) THEN 0
  ELSE IF tx[i] = "\"" THEN i ELSE closingQuote(tx, i + 1)

\* the string literal starting at the quote tx[i]
parseString(tx, i) ==
  LET j == closingQuote(tx, i + 1)
  IN IF j = 0 THEN ParseFail
     ELSE ParseOk(JsStr([m \in 1..(j - i - 1) |-> unescapeChunk(tx[i + m])]), j + 1)

RECURSIVE parseValue(_, _), parseMembers(_, _, _)
parseValue(tx, i) ==
  IF i > Len(tx) THEN ParseFail
  ELSE CASE tx[i] = "null" -> ParseOk(JsNull, i + 1)
         [] tx[i] \in NumberLiterals -> ParseOk(JsNum(tx[i]), i + 1)
         [] tx[i] = "\"" -> parseString(tx, i)
         [] tx[i] = "{" ->
              IF i + 1 <= Len(tx) /\ tx[i + 1] = "}"
              THEN ParseOk(JsObj(<<>>), i + 2)
              ELSE parseMembers(tx, i + 1, <<>>)
         [] OTHER -> ParseFail

\* members of an object from index i on, acc the members read so far
parseMembers(tx, i, acc) ==
  IF i > Len(tx) \/ tx[i] # "\"" THEN ParseFail
  ELSE LET key == parseString(tx, i)
       IN IF ~key.ok \/ Len(key.v.s) # 1 \/ key.n > Len(tx) \/ tx[key.n] # ":"
          THEN ParseFail
          ELSE LET val == parseValue(tx, key.n + 1)
               IN IF ~val.ok \/ val.n > Len(tx) THEN ParseFail
                  ELSE LET ms == Append(acc, Member(key.v.s[1], val.v))
                       IN CASE tx[val.n] = "}" -> ParseOk(JsObj(ms), val.n + 1)
                            [] tx[val.n] = "," -> parseMembers(tx, val.n + 1, ms)
                            [] OTHER -> ParseFail

\* JSON.parse(text): the value, or ok = FALSE for a SyntaxError
JSONparse(tx) ==
  LET r == parseValue(tx, 1)
  IN IF r.ok /\ r.n = Len(tx) + 1 THEN r ELSE ParseFail

\* object[key], undefined when the key is absent or the value is no object
RECURSIVE getMember(_, _)
getMember(ms, key) ==
  IF ms = <<>> THEN JsUndefined
  ELSE IF Head(ms).k = key THEN Head(ms).v ELSE getMember(Tail(ms), key)

prop(val, key) == IF val.t = "object" THEN getMember(val.f, key) ELSE JsUndefined

\* deep equality of two values, members compared as a mapping
RECURSIVE StructEq(_, _)
StructEq(a, b) ==
  /\ a.t = b.t
  /\ a.s = b.s
  /\ Len(a.f) = Len(b.f)
  /\ \A i \in DOMAIN a.f : \E j \in DOMAIN b.f :
       a.f[i].k = b.f[j].k /\ StructEq(a.f[i].v, b.f[j].v)

(* ----------------------------- payloads -------------------------------- *)
\* req.headers, req.body and req.query of the requests of the model
Payload(h, b, q) == [headers |-> h, body |-> b, query |-> q]
HostHeader == Member("host", JsStr(<<"h">>))
Payloads ==
  { Payload(JsObj(<<HostHeader, Member("ct", JsStr(<<"json">>))>>),
            JsObj(<<Member("a", JsNum("1"))>>),
            JsObj(<<Member("q", JsStr(<<"x">>))>>)),
    Payload(JsObj(<<HostHeader>>), JsObj(<<>>), JsObj(<<>>)),
    Payload(JsObj(<<HostHeader>>), JsObj(<<Member("a", JsStr(<<NulChar>>))>>), JsObj(<<>>)) }

\* req.params.filename of the requests of the model: every name a POST of
\* the model can produce, and "." (the path /logs/%2E)
DotName == <<".">>
RequestNames == {filenameOf(replaceColons(toISOString(t))) : t \in 0..MaxClock} \cup {DotName}

(* ------------------------------ state ---------------------------------- *)
VARIABLES
  nodeEnv,        \* process.env.NODE_ENV
  databaseUrl,    \* process.env.DATABASE_URL is set
  clock,          \* the current time in milliseconds
  logsDirExists,  \* the directory logsDir exists
  files,          \* the files of logsDir: name -> content (a JSON text)
  initState,      \* initializeDatabase: "none", "pending", "done", "failed"
  tableExists,    \* the relation webhook_logs exists
  rows,           \* the rows of webhook_logs, in insertion order
  pending,        \* INSERTs of POST /webhook awaited and not yet settled
  nposts,         \* POST /webhook requests received
  saved,          \* history: the saves that succeeded, in order
  last            \* the response sent last

vars == <<nodeEnv, databaseUrl, clock, logsDirExists, files, initState,
          tableExists, rows, pending, nposts, saved, last>>

isProduction == nodeEnv = "production" \/ databaseUrl
pool == isProduction /\ databaseUrl
storageName == IF isProduction /\ pool THEN "database" ELSE "file"

NoName == <<>>
NoResponse ==
  [kind |-> "none", status |-> 0, sent |-> 0, filename |-> NoName,
   timestamp |-> <<>>, storage |-> "", error |-> "", list |-> <<>>,
   headers |-> JsUndefined, body |-> JsUndefined, query |-> JsUndefined,
   init |-> "none"]

\* the state when the module has been loaded: the pool exists when
\* DATABASE_URL is set, and ensureDirSync has run when isProduction is false;
\* otherwise the directory may or may not exist (with a pool it is never
\* looked at, and is taken as absent)
Init ==
  /\ nodeEnv \in {"development", "production"}
  /\ databaseUrl \in BOOLEAN
  /\ clock = 0
  /\ logsDirExists \in (IF ~isProduction THEN {TRUE} ELSE IF pool THEN {FALSE} ELSE BOOLEAN)
  /\ files = <<>>
  /\ initState = IF pool THEN "pending" ELSE "none"
  /\ tableExists \in (IF pool THEN BOOLEAN ELSE {FALSE})
  /\ rows = <<>>
  /\ pending = <<>>
  /\ nposts = 0
  /\ saved = <<>>
  /\ last = NoResponse

(* ------------------------------ startup -------------------------------- *)
\* CREATE TABLE IF NOT EXISTS completes
InitializeDatabaseDone ==
  /\ initState = "pending"
  /\ initState' = "done"
  /\ tableExists' = TRUE
  /\ UNCHANGED <<nodeEnv, databaseUrl, clock, logsDirExists, files, rows,
                 pending, nposts, saved, last>>

\* the query rejects and the catch logs the error
InitializeDatabaseError ==
  /\ initState = "pending"
  /\ initState' = "failed"
  /\ UNCHANGED <<nodeEnv, databaseUrl, clock, logsDirExists, files, tableExists,
                 rows, pending, nposts, saved, last>>

\* time passes
Tick ==
  /\ clock < MaxClock
  /\ clock' = clock + 1
  /\ UNCHANGED <<nodeEnv, databaseUrl, logsDirExists, files, initState,
                 tableExists, rows, pending, nposts, saved, last>>

(* --------------------------- file system ------------------------------- *)
\* outcomes of fs.writeFileSync when the directory exists: the write
\* completes, or it fails after the file was opened with flag 'w' (ENOSPC)
WriteOutcomes == {"ok", "ENOSPC"}

\* length of the prefix of the text a write failing after open leaves behind
\* (any proper prefix can be left; the model takes the longest)
partialCuts(text) == {Len(text) - 1}

\* fs.writeFileSync(path.join(logsDir, filename), text): the files afterwards
\* and the message of the error thrown ("" when none)
writeFileSync(filename, text, outcome, cut) ==
  IF ~logsDirExists
  THEN [files |-> files, error |-> "ENOENT: no such file or directory, open"]
  ELSE IF outcome = "ok"
  THEN [files |-> (filename :> text) @@ files, error |-> ""]
  ELSE [files |-> (filename :> SubSeq(text, 1, cut)) @@ files,
        error |-> "ENOSPC: no space left on device, write"]

(* ----------------------------- database -------------------------------- *)
\* the order in which jsonb keeps the keys of an object: by length, then bytes
JsonbKeyRank == ("a" :> 1) @@ ("q" :> 2) @@ ("ct" :> 3) @@ ("host" :> 4)
              @@ ("body" :> 5) @@ ("query" :> 6) @@ ("headers" :> 7) @@ ("timestamp" :> 8)

RECURSIVE jsonbMembers(_), jsonbValue(_)
jsonbMembers(S) ==
  IF S = {} THEN <<>>
  ELSE LET m == CHOOSE x \in S : \A y \in S : JsonbKeyRank[x.k] <= JsonbKeyRank[y.k]
       IN <<Member(m.k, jsonbValue(m.v))>> \o jsonbMembers(S \ {m})

\* the value a jsonb column holds for an input value
jsonbValue(val) ==
  IF val.t = "object" THEN JsObj(jsonbMembers({val.f[i] : i \in DOMAIN val.f})) ELSE val

\* jsonb rejects the escape \u0000
jsonbAccepts(text) == \A i \in DOMAIN text : text[i] # NulEscape

\* INSERT INTO webhook_logs (filename, headers, body, query) VALUES ($1..$4)
\* at time now: the rows afterwards and the message of the error ("" if none)
insertRow(filename, headers, body, query, now) ==
  IF ~tableExists
  THEN [rows |-> rows, error |-> "relation \"webhook_logs\" does not exist"]
  ELSE IF ~(jsonbAccepts(headers) /\ jsonbAccepts(body) /\ jsonbAccepts(query))
  THEN [rows |-> rows, error |-> "unsupported Unicode escape sequence"]
  ELSE [rows |-> Append(rows, [filename |-> filename,
                               headers |-> jsonbValue(JSONparse(headers).v),
                               body |-> jsonbValue(JSONparse(body).v),
                               query |-> jsonbValue(JSONparse(query).v),
                               created_at |-> now]),
        error |-> ""]

\* the orders in which ORDER BY created_at DESC can return the rows: rows of
\* equal created_at come in any order
orderByCreatedAtDesc ==
  {o \in Permutations(DOMAIN rows) :
     \A i, j \in DOMAIN rows : i < j => rows[o[i]].created_at >= rows[o[j]].created_at}

\* the rows WHERE filename = $1 can return first: there is no ORDER BY
selectByFilename(filename) == {i \in DOMAIN rows : rows[i].filename = filename}

(* ---------------------------- POST /webhook ---------------------------- *)
\* the record built from the request at instant t
makeLogData(p, t) ==
  JsObj(<<Member("timestamp", JsStr(toISOString(t))), Member("headers", p.headers),
          Member("body", p.body), Member("query", p.query)>>)

\* res.status(200).json({status: 'success', ...})
postSuccess(filename, logData) ==
  [NoResponse EXCEPT !.kind = "post", !.status = 200, !.sent = 1,
                     !.filename = filename,
                     !.timestamp = prop(logData, "timestamp").s,
                     !.storage = storageName]

\* res.status(500).json({status: 'error', ..., error: error.message})
postError(filename, message) ==
  [NoResponse EXCEPT !.kind = "post", !.status = 500, !.sent = 1,
                     !.filename = filename, !.error = message]

SavedEntry(filename, p, backend) == [filename |-> filename, payload |-> p, backend |-> backend]

\* the handler up to its response (file branch) or up to the await of the
\* INSERT (database branch); clock and t2 are the instants of the two new Date()
PostWebhook ==
  /\ nposts < MaxPosts
  /\ \E p \in Payloads, t2 \in {clock, clock + 1} :
       /\ t2 <= MaxClock
       /\ LET timestamp == replaceColons(toISOString(clock))
              filename == filenameOf(timestamp)
              logData == makeLogData(p, t2)
          IN IF isProduction /\ pool
             THEN /\ pending' = Append(pending,
                        [filename |-> filename, logData |-> logData, payload |-> p,
                         init |-> initState])
                  /\ UNCHANGED <<files, saved, last>>
             ELSE \E outcome \in WriteOutcomes :
                  \E cut \in partialCuts(JSONstringify(logData)) :
                    LET w == writeFileSync(filename, JSONstringify(logData), outcome, cut)
                    IN /\ files' = w.files
                       /\ IF w.error = ""
                          THEN /\ saved' = Append(saved, SavedEntry(filename, p, "file"))
                               /\ last' = postSuccess(filename, logData)
                          ELSE /\ saved' = saved
                               /\ last' = postError(filename, w.error)
                       /\ UNCHANGED pending
       /\ clock' = t2
  /\ nposts' = nposts + 1
  /\ UNCHANGED <<nodeEnv, databaseUrl, logsDirExists, initState, tableExists, rows>>

\* the INSERT of a pending request settles and its handler runs to the response
PostWebhookSettle ==
  \E n \in DOMAIN pending :
    LET r == pending[n]
        ins == insertRow(r.filename,
                         JSONstringify(prop(r.logData, "headers")),
                         JSONstringify(prop(r.logData, "body")),
                         JSONstringify(prop(r.logData, "query")), clock)
    IN /\ rows' = ins.rows
       /\ pending' = [i \in 1..(Len(pending) - 1) |->
                        IF i < n THEN pending[i] ELSE pending[i + 1]]
       /\ IF ins.error = ""
          THEN /\ saved' = Append(saved, SavedEntry(r.filename, r.payload, "database"))
               /\ last' = [postSuccess(r.filename, r.logData) EXCEPT !.init = r.init]
          ELSE /\ saved' = saved
               /\ last' = [postError(r.filename, ins.error) EXCEPT !.init = r.init]
       /\ UNCHANGED <<nodeEnv, databaseUrl, clock, logsDirExists, files, initState,
                      tableExists, nposts>>

(* ------------------------------ GET /logs ------------------------------ *)
\* res.send(...) of the list page (the empty-state page when logFiles is empty)
listSuccess(logFiles) ==
  [NoResponse EXCEPT !.kind = "list", !.status = 200, !.sent = 1,
                     !.list = logFiles, !.storage = storageName, !.init = initState]

\* res.status(500).send(`Error reading logs: ${err.message}`)
listError(message) ==
  [NoResponse EXCEPT !.kind = "list", !.status = 500, !.sent = 1,
                     !.error = message, !.storage = storageName, !.init = initState]

\* fs.readdir(logsDir), filter, sort, reverse
listFromFiles ==
  IF ~logsDirExists
  THEN listError("ENOENT: no such file or directory, scandir")
  ELSE listSuccess(sortReverse({file \in DOMAIN files : endsWithJson(file)}))

\* SELECT filename, created_at ... ORDER BY created_at DESC, in the order o
listFromDatabase(o) ==
  IF ~tableExists
  THEN listError("relation \"webhook_logs\" does not exist")
  ELSE listSuccess([i \in DOMAIN rows |-> rows[o[i]].filename])

GetLogs ==
  /\ IF isProduction /\ pool
     THEN \E o \in orderByCreatedAtDesc : last' = listFromDatabase(o)
     ELSE last' = listFromFiles
  /\ UNCHANGED <<nodeEnv, databaseUrl, clock, logsDirExists, files, initState,
                 tableExists, rows, pending, nposts, saved>>

(* ------------------------- GET /logs/:filename ------------------------- *)
\* res.status(404).send('Log not found')
logNotFound(filename) ==
  [NoResponse EXCEPT !.kind = "get", !.status = 404, !.sent = 1,
                     !.filename = filename, !.storage = storageName, !.init = initState]

\* res.status(500).send(`Error reading log: ${err.message}`)
logError(filename, message) ==
  [NoResponse EXCEPT !.kind = "get", !.status = 500, !.sent = 1,
                     !.filename = filename, !.error = message,
                     !.storage = storageName, !.init = initState]

\* res.send(...) of the page showing logData.headers, .body and .query
logSuccess(filename, headers, body, query) ==
  [NoResponse EXCEPT !.kind = "get", !.status = 200, !.sent = 1,
                     !.filename = filename, !.headers = headers, !.body = body,
                     !.query = query, !.storage = storageName, !.init = initState]

\* fs.pathExists(path.join(logsDir, filename)); "." names logsDir itself
pathExists(filename) ==
  logsDirExists /\ (filename = DotName \/ filename \in DOMAIN files)

\* the file branch with a catch that reports an unreadable log as absent
getLogFromFileCorruptAsMissing(filename) ==
  IF ~pathExists(filename) THEN logNotFound(filename)
  ELSE IF filename = DotName
  THEN logError(filename, "EISDIR: illegal operation on a directory, read")
  ELSE LET logData == JSONparse(files[filename])
       IN IF ~logData.ok THEN logNotFound(filename)
          ELSE logSuccess(filename, prop(logData.v, "headers"),
                          prop(logData.v, "body"), prop(logData.v, "query"))

\* the file branch: pathExists, readFile, JSON.parse, and the catch
getLogFromFile(filename) ==
  IF ~pathExists(filename) THEN logNotFound(filename)
  ELSE IF filename = DotName
  THEN logError(filename, "EISDIR: illegal operation on a directory, read")
  ELSE LET logData == JSONparse(files[filename])
       IN IF ~logData.ok THEN logError(filename, "Unexpected end of JSON input")
          ELSE logSuccess(filename, prop(logData.v, "headers"),
                          prop(logData.v, "body"), prop(logData.v, "query"))

\* typeof column === 'string' ? JSON.parse(column) : column
normalizeColumn(column) ==
  IF column.t = "string" THEN JSONparse(column.s).v ELSE column

\* the database branch; first is the index of result.rows[0], 0 for no rows
getLogFromDatabase(filename, first) ==
  IF ~tableExists
  THEN logError(filename, "relation \"webhook_logs\" does not exist")
  ELSE IF first = 0 THEN logNotFound(filename)
  ELSE logSuccess(filename, normalizeColumn(rows[first].headers),
                  normalizeColumn(rows[first].body),
                  normalizeColumn(rows[first].query))

GetLog ==
  /\ \E filename \in RequestNames :
       IF isProduction /\ pool
       THEN \E first \in (IF selectByFilename(filename) = {} THEN {0}
                          ELSE selectByFilename(filename)) :
              last' = getLogFromDatabase(filename, first)
       ELSE last' = getLogFromFile(filename)
  /\ UNCHANGED <<nodeEnv, databaseUrl, clock, logsDirExists, files, initState,
                 tableExists, rows, pending, nposts, saved>>

(* --------------------------- specification ----------------------------- *)
Next ==
  \/ InitializeDatabaseDone
  \/ InitializeDatabaseError
  \/ Tick
  \/ PostWebhook
  \/ PostWebhookSettle
  \/ GetLogs
  \/ GetLog

Spec == Init /\ [][Next]_vars

\* the configurations in which the handlers take the file branch
InitFile == Init /\ ~(isProduction /\ pool)

NextFile ==
  \/ Tick
  \/ PostWebhook
  \/ GetLogs
  \/ GetLog

SpecFile == InitFile /\ [][NextFile]_vars

(* ------------------------------ claims --------------------------------- *)
\* C1: a get of an identifier under which a record was saved answers 200
\* with headers, body and query structurally equal to those of the payload
\* of every save made under that identifier.
SaveThenGetRoundTrip ==
  \A i \in DOMAIN saved :
    (last.kind = "get" /\ last.filename = saved[i].filename) =>
      /\ last.status = 200
      /\ StructEq(last.headers, saved[i].payload.headers)
      /\ StructEq(last.body, saved[i].payload.body)
      /\ StructEq(last.query, saved[i].payload.query)

\* C2: after N successful saves from empty storage, list answers without
\* error with exactly N identifiers, no two equal, in descending order.
ListAfterSaves ==
  last.kind = "list" =>
    /\ last.status = 200
    /\ Len(last.list) = Len(saved)
    /\ \A i, j \in DOMAIN last.list : i < j => StrLess(last.list[j], last.list[i])

\* C3: a get of an identifier under which no record was ever saved answers 404.
GetNeverSavedIsNotFound ==
  (last.kind = "get" /\ \A i \in DOMAIN saved : saved[i].filename # last.filename)
    => last.status = 404

\* C4: in the database backend no two rows share an identifier, and a get
\* of an identifier returns the first record saved under it.
FirstSaved(filename) ==
  saved[CHOOSE i \in DOMAIN saved :
          /\ saved[i].filename = filename
          /\ \A j \in DOMAIN saved : saved[j].filename = filename => i <= j]

DatabaseIdentifiersUnique ==
  (isProduction /\ pool) =>
    /\ \A i, j \in DOMAIN rows : i # j => rows[i].filename # rows[j].filename
    /\ (last.kind = "get" /\ last.status = 200) =>
         StructEq(last.body, FirstSaved(last.filename).payload.body)

\* C5: in the file backend the content stored under an identifier a save
\* succeeded under is the same in every later state.
PersistedRecordImmutable ==
  [][\A i \in DOMAIN saved :
       saved[i].backend = "file" =>
         /\ saved[i].filename \in DOMAIN files'
         /\ files'[saved[i].filename] = files[saved[i].filename]]_vars

\* C6: POST /webhook answers 200 only when the save completed and 500 with
\* the error's message when it failed, and after a 500 the records visible
\* to list and get are those visible before the request.
PostResponded ==
  /\ last'.kind = "post"
  /\ last' # last \/ DOMAIN files' # DOMAIN files \/ rows' # rows \/ saved' # saved

PostAnswersSaveOutcome ==
  [][PostResponded =>
      \/ /\ last'.status = 200
         /\ Len(saved') = Len(saved) + 1
         /\ saved'[Len(saved')].filename = last'.filename
      \/ /\ last'.status = 500
         /\ last'.error # ""
         /\ DOMAIN files' = DOMAIN files
         /\ \A file \in DOMAIN files : files'[file] = files[file]
         /\ rows' = rows]_vars

\* C7: on a successful POST /webhook the timestamp of the response, with its
\* colons replaced by hyphens, is the identifier the record was saved under,
\* and the storage field names the backend the record was written to.
AckCarriesIdentifierAndBackend ==
  (last.kind = "post" /\ last.status = 200) =>
    /\ filenameOf(replaceColons(last.timestamp)) = last.filename
    /\ last.storage = saved[Len(saved)].backend

\* C8: no save, list or get query is issued against the database before the
\* schema initialization has completed.
SchemaInitializedBeforeUse ==
  /\ \A i \in DOMAIN pending : pending[i].init = "done"
  /\ (isProduction /\ pool /\ last.kind # "none") => last.init = "done"

\* C9: whenever the file backend is the active backend and a handler has
\* touched the directory, the directory exists.
LogsDirExistsOnUse ==
  (~(isProduction /\ pool) /\ last.kind # "none") => logsDirExists

\* C10: in the file backend a get of an identifier whose file exists and
\* holds malformed JSON answers 500 with a message, in exactly one response.
CorruptFile(filename) ==
  /\ ~(isProduction /\ pool)
  /\ filename \in DOMAIN files
  /\ ~JSONparse(files[filename]).ok

CorruptFileIsReadError ==
  (last.kind = "get" /\ CorruptFile(last.filename)) =>
    /\ last.status = 500
    /\ last.status # 404
    /\ last.error # ""
    /\ last.sent = 1

CorruptFileWasRead ==
  /\ last.kind = "get"
  /\ CorruptFile(last.filename)
  /\ last.status = 500
====
